---- MODULE Spec2Model ----
(***************************************************************************)
(* A model of apply_lut.py: the construction of the 256-entry lookup table *)
(* from the CSV samples (load_lut), the range normalisation of a greyscale *)
(* buffer (scale_to_full_range), the per-image pipeline (process_image)    *)
(* and the control flow of main with its exit codes.                       *)
(*                                                                         *)
(* Python floats are modelled as exact rationals extended with the three   *)
(* special values float() accepts from a CSV cell: nan, inf and -inf.  All *)
(* finite inputs of the model are small integers, for which the double and *)
(* the exact rational agree after round(); the one place where they do not *)
(* (the two-step product of scale_to_full_range) is corrected by the list  *)
(* of its tie cases.                                                       *)
(***************************************************************************)
EXTENDS Integers, Sequences, FiniteSets, TLC

VARIABLES pc, exitCode, env, rows, pairs, lut, hsv_tuple, images, idx,
          out_dir, events, stages, img, out

vars == <<pc, exitCode, env, rows, pairs, lut, hsv_tuple, images, idx,
          out_dir, events, stages, img, out>>

(***************************************************************************)
(* Python float values.                                                    *)
(***************************************************************************)
Fin(n) == [k |-> "fin", n |-> n, d |-> 1]
Rat(n, d) == [k |-> "fin", n |-> n, d |-> d]
NaN == [k |-> "nan", n |-> 0, d |-> 1]
PosInf == [k |-> "inf", n |-> 0, d |-> 1]
NegInf == [k |-> "ninf", n |-> 0, d |-> 1]
\* a CSV cell float() rejects (ValueError)
BadCell == [k |-> "bad", n |-> 0, d |-> 1]

\* a < b on floats: every comparison with nan is false
FLt(a, b) ==
    CASE a.k = "nan" \/ b.k = "nan" -> FALSE
      [] a.k = "fin" /\ b.k = "fin" -> a.n * b.d < b.n * a.d
      [] a.k = "ninf" -> b.k # "ninf"
      [] a.k = "inf" -> FALSE
      [] OTHER -> b.k = "inf"

\* a == b on floats: nan equals nothing, itself included
FEq(a, b) ==
    CASE a.k = "nan" \/ b.k = "nan" -> FALSE
      [] a.k = "fin" /\ b.k = "fin" -> a.n * b.d = b.n * a.d
      [] OTHER -> a.k = b.k

FLe(a, b) == FLt(a, b) \/ FEq(a, b)
FGe(a, b) == FLe(b, a)

FNeg(a) ==
    CASE a.k = "fin" -> Rat(0 - a.n, a.d)
      [] a.k = "inf" -> NegInf
      [] a.k = "ninf" -> PosInf
      [] OTHER -> a

FAdd(a, b) ==
    CASE a.k = "nan" \/ b.k = "nan" -> NaN
      [] a.k = "fin" /\ b.k = "fin" -> Rat(a.n * b.d + b.n * a.d, a.d * b.d)
      [] a.k = "fin" -> b
      [] b.k = "fin" -> a
      [] a.k = b.k -> a
      [] OTHER -> NaN

FSub(a, b) == FAdd(a, FNeg(b))

FSign(a) ==
    CASE a.k = "inf" -> 1
      [] a.k = "ninf" -> 0 - 1
      [] OTHER -> IF a.n > 0 THEN 1 ELSE IF a.n < 0 THEN 0 - 1 ELSE 0

FMul(a, b) ==
    CASE a.k = "nan" \/ b.k = "nan" -> NaN
      [] a.k = "fin" /\ b.k = "fin" -> Rat(a.n * b.n, a.d * b.d)
      [] FSign(a) * FSign(b) = 0 -> NaN
      [] FSign(a) * FSign(b) > 0 -> PosInf
      [] OTHER -> NegInf

\* a / b for b # 0 (the only divisor of the program is s1 - s0 with s1 # s0)
FDiv(a, b) ==
    CASE a.k = "nan" \/ b.k = "nan" -> NaN
      [] a.k = "fin" /\ b.k = "fin" ->
            IF b.n > 0 THEN Rat(a.n * b.d, a.d * b.n)
                       ELSE Rat(0 - a.n * b.d, 0 - a.d * b.n)
      [] a.k = "fin" -> Fin(0)
      [] b.k = "fin" -> IF FSign(a) * FSign(b) > 0 THEN PosInf ELSE NegInf
      [] OTHER -> NaN

\* the builtins min(a, b) and max(a, b): the first argument is kept unless the
\* second compares strictly smaller (larger), so a nan second argument is dropped
PyMin(a, b) == IF FLt(b, a) THEN b ELSE a
PyMax(a, b) == IF FLt(a, b) THEN b ELSE a

\* Clamp with the upper bound lost: max(0.0, x)
ClampNoUpper(x) == PyMax(Fin(0), x)

\* max(0.0, min(255.0, x))
Clamp(x) == PyMax(Fin(0), PyMin(Fin(255), x))

\* round(x) of a finite float: to the nearest integer, ties to the even one
PyRound(x) ==
    LET q == x.n \div x.d
        r == x.n % x.d
    IN  IF 2 * r < x.d THEN q
        ELSE IF 2 * r > x.d THEN q + 1
        ELSE IF q % 2 = 0 THEN q ELSE q + 1

(***************************************************************************)
(* load_lut: rows of the CSV -> 256-entry table.                           *)
(***************************************************************************)
\* number of table entries, range(256)
Levels == 256

\* pairs.sort(key=lambda p: p[0]) as CPython sorts a list of fewer than 64
\* elements: the leading run is found (a strictly descending one is reversed)
\* and the remaining elements are placed by binary insertion; keys are
\* compared with < only, so nan keys stay where the comparisons leave them.
RECURSIVE RunEnd(_, _, _)
RunEnd(a, r, desc) ==
    IF r < Len(a) /\ (FLt(a[r + 1][1], a[r][1]) <=> desc)
    THEN RunEnd(a, r + 1, desc)
    ELSE r

Reverse(a) == [j \in 1..Len(a) |-> a[Len(a) + 1 - j]]

RECURSIVE BinPos(_, _, _, _)
BinPos(a, pivot, l, r) ==
    IF l < r
    THEN LET p == l + ((r - l) \div 2)
         IN  IF FLt(pivot[1], a[p + 1][1]) THEN BinPos(a, pivot, l, p)
                                           ELSE BinPos(a, pivot, p + 1, r)
    ELSE l

RECURSIVE BinarySort(_, _)
BinarySort(a, start) ==
    IF start >= Len(a) THEN a
    ELSE LET pivot == a[start + 1]
             l == BinPos(a, pivot, 0, start)
         IN  BinarySort(SubSeq(a, 1, l) \o <<pivot>> \o SubSeq(a, l + 1, start)
                            \o SubSeq(a, start + 2, Len(a)),
                        start + 1)

PySort(a) ==
    IF Len(a) < 2 THEN a
    ELSE LET desc == FLt(a[2][1], a[1][1])
             r == RunEnd(a, 2, desc)
             b == IF desc THEN Reverse(SubSeq(a, 1, r)) \o SubSeq(a, r + 1, Len(a))
                          ELSE a
         IN  BinarySort(b, r)

\* a row float() cannot parse raises ValueError("Invalid row in CSV")
RowInvalid(row) == row.Scan.k = "bad" \/ row.Idea.k = "bad"

\* (scan, idea) pairs of the rows, idea clamped to [0, 255]
ParsePairs(rs) == [j \in 1..Len(rs) |-> <<rs[j].Scan, Clamp(rs[j].Idea)>>]

\* index j of the first consecutive pair (ps[j-1], ps[j]) with ps[j].scan >= i,
\* or 0 when the scan runs to its end (the for-else)
RECURSIVE ScanFrom(_, _, _)
ScanFrom(ps, i, j) ==
    IF j > Len(ps) THEN 0
    ELSE IF FGe(ps[j][1], Fin(i)) THEN j
    ELSE ScanFrom(ps, i, j + 1)

\* LutBranch with the two clamps tested in the other order (i >= s_max first)
LutBranchMaxFirst(ps, i) ==
    LET s_min == ps[1][1]
        s_max == ps[Len(ps)][1]
        j == ScanFrom(ps, i, 2)
    IN  IF FGe(Fin(i), s_max) THEN "max"
        ELSE IF FLe(Fin(i), s_min) THEN "min"
        ELSE IF Len(ps) = 1 THEN "single"
        ELSE IF j = 0 THEN "else"
        ELSE IF FEq(ps[j][1], ps[j - 1][1]) THEN "zero"
        ELSE "interp"

\* LutBranch with the minimum clamp tested strictly (i < s_min)
LutBranchStrict(ps, i) ==
    LET s_min == ps[1][1]
        s_max == ps[Len(ps)][1]
        j == ScanFrom(ps, i, 2)
    IN  IF FLt(Fin(i), s_min) THEN "min"
        ELSE IF FGe(Fin(i), s_max) THEN "max"
        ELSE IF Len(ps) = 1 THEN "single"
        ELSE IF j = 0 THEN "else"
        ELSE IF FEq(ps[j][1], ps[j - 1][1]) THEN "zero"
        ELSE "interp"

\* the branch of the if/elif chain that sets out_val for query i
LutBranch(ps, i) ==
    LET s_min == ps[1][1]
        s_max == ps[Len(ps)][1]
        j == ScanFrom(ps, i, 2)
    IN  IF FLe(Fin(i), s_min) THEN "min"
        ELSE IF FGe(Fin(i), s_max) THEN "max"
        ELSE IF Len(ps) = 1 THEN "single"
        ELSE IF j = 0 THEN "else"
        ELSE IF FEq(ps[j][1], ps[j - 1][1]) THEN "zero"
        ELSE "interp"

\* o0 + (o1 - o0) * (i - s0) / (s1 - s0)
Interpolate(p0, p1, i) ==
    FAdd(p0[2], FDiv(FMul(FSub(p1[2], p0[2]), FSub(Fin(i), p0[1])),
                     FSub(p1[1], p0[1])))

LutOutVal(ps, i) ==
    LET b == LutBranch(ps, i)
        j == ScanFrom(ps, i, 2)
    IN  CASE b = "min" -> ps[1][2]
          [] b = "max" -> ps[Len(ps)][2]
          [] b = "single" -> ps[1][2]
          [] b = "else" -> ps[Len(ps)][2]
          [] b = "zero" -> ps[j - 1][2]
          [] OTHER -> Interpolate(ps[j - 1], ps[j], i)

LutEntry(ps, i) == PyRound(Clamp(LutOutVal(ps, i)))

\* the table of the sorted pairs; entry i of the list is lut[i + 1] here
BuildTable(ps) == [x \in 1..Levels |-> LutEntry(ps, x - 1)]

\* lut = [255 - v for v in lut]
InvertTable(t) == [x \in 1..Len(t) |-> 255 - t[x]]

(***************************************************************************)
(* Image buffers and the pixel pipeline.                                   *)
(***************************************************************************)
\* a buffer: size (w, h), mode "L" (one int per pixel) or "RGB" (a triple per
\* pixel), data in row-major order
Buffer(w, h, mode, data) == [w |-> w, h |-> h, mode |-> mode, data |-> data]

RECURSIVE SeqMin(_)
SeqMin(q) ==
    IF Len(q) = 1 THEN q[1]
    ELSE LET m == SeqMin(Tail(q)) IN IF m < q[1] THEN m ELSE q[1]

RECURSIVE SeqMax(_)
SeqMax(q) ==
    IF Len(q) = 1 THEN q[1]
    ELSE LET m == SeqMax(Tail(q)) IN IF m > q[1] THEN m ELSE q[1]

\* The pairs (max - min, p - min) of 8-bit pixels for which the double
\* (p - min) * (255.0 / (max - min)) leaves the exact tie x.5 that the real
\* product sits on, so that round() gives the other neighbour than
\* round-half-even of the real product does.
FloatTieBelow ==
    {<<50, 25>>, <<50, 45>>, <<58, 29>>, <<100, 50>>, <<100, 90>>, <<106, 53>>,
     <<116, 58>>, <<182, 91>>, <<186, 93>>, <<200, 100>>, <<200, 180>>,
     <<206, 103>>, <<210, 21>>, <<210, 49>>, <<210, 77>>, <<210, 105>>,
     <<210, 161>>, <<210, 189>>, <<212, 106>>, <<232, 116>>, <<234, 117>>,
     <<242, 121>>}
FloatTieAbove == {<<162, 135>>}

\* ScalePixel with scale = 256.0 / (max_val - min_val)
ScalePixel256(p, min_val, max_val) ==
    PyRound(Rat((p - min_val) * 256, max_val - min_val))

\* round((p - min_val) * scale) with scale = 255.0 / (max_val - min_val)
ScalePixel(p, min_val, max_val) ==
    LET d == max_val - min_val
        k == p - min_val
        r == PyRound(Rat(k * 255, d))
    IN  IF <<d, k>> \in FloatTieBelow THEN r - 1
        ELSE IF <<d, k>> \in FloatTieAbove THEN r + 1
        ELSE r

scale_to_full_range(b) ==
    LET min_val == SeqMin(b.data)
        max_val == SeqMax(b.data)
    IN  IF max_val = min_val
        THEN Buffer(b.w, b.h, "L", [x \in 1..Len(b.data) |-> 0])
        ELSE Buffer(b.w, b.h, "L",
                    [x \in 1..Len(b.data) |-> ScalePixel(b.data[x], min_val, max_val)])

\* img.point(lut, mode="L"): out[x] = lut[in[x]]
PointLut(b, t) == Buffer(b.w, b.h, "L", [x \in 1..Len(b.data) |-> t[b.data[x] + 1]])

\* transpose(FLIP_LEFT_RIGHT): every row reversed
FlipLeftRight(b) ==
    Buffer(b.w, b.h, b.mode,
           [x \in 1..Len(b.data) |->
               LET r == (x - 1) \div b.w
                   c == (x - 1) % b.w
               IN  b.data[r * b.w + (b.w - 1 - c) + 1]])

RECURSIVE Gcd(_, _)
Gcd(a, b) == IF b = 0 THEN a ELSE Gcd(b, a % b)

\* a finite value in lowest terms
Norm(x) ==
    LET g == Gcd(IF x.n < 0 THEN 0 - x.n ELSE x.n, x.d)
    IN  Rat(x.n \div g, x.d \div g)

NMul(a, b) == Norm(FMul(a, b))
NSub(a, b) == Norm(FSub(a, b))

\* colorsys.hsv_to_rgb(h, s, v)
hsv_to_rgb(h, s, v) ==
    IF FEq(s, Fin(0)) THEN <<v, v, v>>
    ELSE LET h6 == NMul(h, Fin(6))
             i == h6.n \div h6.d
             f == NSub(h6, Fin(i))
             p == NMul(v, NSub(Fin(1), s))
             q == NMul(v, NSub(Fin(1), NMul(s, f)))
             t == NMul(v, NSub(Fin(1), NMul(s, NSub(Fin(1), f))))
             m == i % 6
         IN  CASE m = 0 -> <<v, t, p>>
               [] m = 1 -> <<q, v, p>>
               [] m = 2 -> <<p, v, t>>
               [] m = 3 -> <<p, q, v>>
               [] m = 4 -> <<t, p, v>>
               [] OTHER -> <<v, p, q>>

TintPixel(L, hsv) ==
    LET v == NMul(Rat(L, 255), hsv[3])
        rgb == hsv_to_rgb(hsv[1], hsv[2], v)
    IN  <<PyRound(NMul(rgb[1], Fin(255))), PyRound(NMul(rgb[2], Fin(255))),
          PyRound(NMul(rgb[3], Fin(255)))>>

apply_hsv_tint(b, hsv) ==
    Buffer(b.w, b.h, "RGB", [x \in 1..Len(b.data) |-> TintPixel(b.data[x], hsv)])

(***************************************************************************)
(* The environment of a run: command line, CSV file, input directory.      *)
(***************************************************************************)
\* the names the input directory may hold, in ascending order of the names
\* (sorted() compares the paths, which differ in the name only), so that a
\* file is identified by its rank in this list
FileNames == <<"B.PNG", "a.jpg", "c.jpeg", "notes.txt">>
\* p.suffix.lower().lstrip(".") of each name
SuffixLower == <<"png", "jpg", "jpeg", "txt">>
\* --extensions, default "jpg,jpeg,png", split, stripped, lower-cased
Extensions == {"jpg", "jpeg", "png"}

NoBuffer == Buffer(0, 0, "L", <<>>)
\* a directory entry: a sub-directory, a file no decoder accepts, or an image
\* given by the greyscale buffer Image.open(path).convert("L") returns
DirEntry == [kind |-> "dir", buf |-> NoBuffer]
CorruptFile == [kind |-> "corrupt", buf |-> NoBuffer]
ImageFile(b) == [kind |-> "image", buf |-> b]

NoHsv == [given |-> FALSE, parts |-> <<>>]
HsvArg(q) == [given |-> TRUE, parts |-> q]

\* hsv_tuple = None
NoTuple == [given |-> FALSE, val |-> <<Fin(0), Fin(0), Fin(0)>>]

RECURSIVE SortedSeq(_)
SortedSeq(S) ==
    IF S = {} THEN <<>>
    ELSE LET m == CHOOSE x \in S : \A y \in S : x <= y
         IN  <<m>> \o SortedSeq(S \ {m})

\* collect_images returning the paths in descending order
collect_images_reversed(listing, extensions) ==
    Reverse(SortedSeq({f \in DOMAIN listing :
                          listing[f].kind # "dir" /\ SuffixLower[f] \in extensions}))

\* collect_images: the regular files of the listing whose suffix is accepted,
\* sorted; the order in which iterdir() yields the entries is lost in sorted()
collect_images(listing, extensions) ==
    SortedSeq({f \in DOMAIN listing :
                  listing[f].kind # "dir" /\ SuffixLower[f] \in extensions})

(***************************************************************************)
(* main, one action per step.                                              *)
(***************************************************************************)
\* sys.exit(code), or main returning (code 0)
Exit(code) == pc' = "exit" /\ exitCode' = code

Log(e) == events' = Append(events, e)

\* if not args.input_dir.is_dir(): exit 1
CheckInputDir ==
    /\ pc = "start"
    /\ IF env.input_dir THEN pc' = "check_lut" /\ exitCode' = exitCode
                        ELSE Exit(1)
    /\ UNCHANGED <<env, rows, pairs, lut, hsv_tuple, images, idx, out_dir,
                   events, stages, img, out>>

\* if not args.lut.is_file(): exit 1
CheckLutFile ==
    /\ pc = "check_lut"
    /\ IF env.lut_file THEN pc' = "load_lut" /\ exitCode' = exitCode
                       ELSE Exit(1)
    /\ UNCHANGED <<env, rows, pairs, lut, hsv_tuple, images, idx, out_dir,
                   events, stages, img, out>>

\* load_lut raises ValueError: columns missing, a row float() rejects, no rows
LutError == \/ ~env.fieldnames
            \/ \E j \in 1..Len(rows) : RowInvalid(rows[j])
            \/ rows = <<>>

\* lut = load_lut(args.lut), exit 1 on ValueError
LoadLut ==
    /\ pc = "load_lut"
    /\ IF LutError
       THEN Exit(1) /\ UNCHANGED <<pairs, lut>>
       ELSE /\ pairs' = PySort(ParsePairs(rows))
            /\ lut' = BuildTable(pairs')
            /\ pc' = "negative"
            /\ exitCode' = exitCode
    /\ UNCHANGED <<env, rows, hsv_tuple, images, idx, out_dir, events, stages,
                   img, out>>

\* if args.negative: lut = [255 - v for v in lut]
Negative ==
    /\ pc = "negative"
    /\ lut' = IF env.negative THEN InvertTable(lut) ELSE lut
    /\ pc' = "hsv"
    /\ UNCHANGED <<exitCode, env, rows, pairs, hsv_tuple, images, idx, out_dir,
                   events, stages, img, out>>

\* the checks of --hsv: three parts, three numbers, H in [0,360], S, V in [0,100]
HsvError(q) ==
    \/ Len(q) # 3
    \/ \E j \in 1..Len(q) : q[j].k = "bad"
    \/ ~(FLe(Fin(0), q[1]) /\ FLe(q[1], Fin(360)))
    \/ ~(FLe(Fin(0), q[2]) /\ FLe(q[2], Fin(100)))
    \/ ~(FLe(Fin(0), q[3]) /\ FLe(q[3], Fin(100)))

\* (h_deg / 360.0, s_pct / 100.0, v_pct / 100.0)
HsvTuple(q) ==
    [given |-> TRUE,
     val |-> <<Norm(FDiv(q[1], Fin(360))), Norm(FDiv(q[2], Fin(100))),
               Norm(FDiv(q[3], Fin(100)))>>]

\* ParseHsv that drops a bad --hsv value and carries on without a tint
ParseHsvLenient ==
    /\ pc = "hsv"
    /\ hsv_tuple' = IF env.hsv.given /\ ~HsvError(env.hsv.parts)
                    THEN HsvTuple(env.hsv.parts) ELSE NoTuple
    /\ pc' = "collect"
    /\ UNCHANGED <<exitCode, env, rows, pairs, lut, images, idx, out_dir, events,
                   stages, img, out>>

ParseHsv ==
    /\ pc = "hsv"
    /\ IF ~env.hsv.given
       THEN pc' = "collect" /\ exitCode' = exitCode /\ hsv_tuple' = NoTuple
       ELSE IF HsvError(env.hsv.parts)
       THEN Exit(1) /\ UNCHANGED hsv_tuple
       ELSE /\ hsv_tuple' = HsvTuple(env.hsv.parts)
            /\ pc' = "collect"
            /\ exitCode' = exitCode
    /\ UNCHANGED <<env, rows, pairs, lut, images, idx, out_dir, events, stages,
                   img, out>>

\* CollectImages that treats an empty list of images as an error
CollectImagesStrict ==
    /\ pc = "collect"
    /\ images' = collect_images(env.listing, Extensions)
    /\ IF images' = <<>> THEN Exit(1)
                         ELSE pc' = "mkdir" /\ exitCode' = exitCode
    /\ UNCHANGED <<env, rows, pairs, lut, hsv_tuple, idx, out_dir, events,
                   stages, img, out>>

\* images = collect_images(...); no image: print and return
CollectImages ==
    /\ pc = "collect"
    /\ images' = collect_images(env.listing, Extensions)
    /\ IF images' = <<>> THEN Exit(0)
                         ELSE pc' = "mkdir" /\ exitCode' = exitCode
    /\ UNCHANGED <<env, rows, pairs, lut, hsv_tuple, idx, out_dir, events,
                   stages, img, out>>

\* args.output_dir.mkdir(parents=True, exist_ok=True)
MakeOutDir ==
    /\ pc = "mkdir"
    /\ out_dir' = TRUE
    /\ pc' = "loop"
    /\ UNCHANGED <<exitCode, env, rows, pairs, lut, hsv_tuple, images, idx,
                   events, stages, img, out>>

\* for path in images: the next path enters process_image
NextImage ==
    /\ pc = "loop"
    /\ idx <= Len(images)
    /\ pc' = "open"
    /\ stages' = <<>>
    /\ UNCHANGED <<exitCode, env, rows, pairs, lut, hsv_tuple, images, idx,
                   out_dir, events, img, out>>

\* the loop is exhausted: print the summary, main returns
Finish ==
    /\ pc = "loop"
    /\ idx > Len(images)
    /\ Exit(0)
    /\ UNCHANGED <<env, rows, pairs, lut, hsv_tuple, images, idx, out_dir,
                   events, stages, img, out>>

\* OpenImage in a loop that reports a bad image and goes on to the next one
OpenImageSkip ==
    /\ pc = "open"
    /\ LET f == images[idx]
       IN  IF env.listing[f].kind = "image"
           THEN /\ img' = env.listing[f].buf
                /\ Log(<<"decode", f>>)
                /\ pc' = "scale"
                /\ idx' = idx
           ELSE /\ Log(<<"error", f>>)
                /\ pc' = "loop"
                /\ idx' = idx + 1
                /\ UNCHANGED img
    /\ UNCHANGED <<exitCode, env, rows, pairs, lut, hsv_tuple, images, out_dir,
                   stages, out>>

\* img = Image.open(path).convert("L"); an exception is caught in main: exit 1
OpenImage ==
    /\ pc = "open"
    /\ LET f == images[idx]
       IN  IF env.listing[f].kind = "image"
           THEN /\ img' = env.listing[f].buf
                /\ Log(<<"decode", f>>)
                /\ pc' = "scale"
                /\ exitCode' = exitCode
           ELSE /\ Exit(1)
                /\ Log(<<"error", f>>)
                /\ UNCHANGED img
    /\ UNCHANGED <<env, rows, pairs, lut, hsv_tuple, images, idx, out_dir,
                   stages, out>>

\* img = scale_to_full_range(img)
ScaleImage ==
    /\ pc = "scale"
    /\ img' = scale_to_full_range(img)
    /\ stages' = Append(stages, "A")
    /\ pc' = "point"
    /\ UNCHANGED <<exitCode, env, rows, pairs, lut, hsv_tuple, images, idx,
                   out_dir, events, out>>

\* PointImage that maps the decoded buffer instead of the normalised one
PointImageRaw ==
    /\ pc = "point"
    /\ out' = PointLut(env.listing[images[idx]].buf, lut)
    /\ stages' = Append(stages, "B")
    /\ pc' = "flip"
    /\ UNCHANGED <<exitCode, env, rows, pairs, lut, hsv_tuple, images, idx,
                   out_dir, events, img>>

\* out = img.point(lut, mode="L")
PointImage ==
    /\ pc = "point"
    /\ out' = PointLut(img, lut)
    /\ stages' = Append(stages, "B")
    /\ pc' = "flip"
    /\ UNCHANGED <<exitCode, env, rows, pairs, lut, hsv_tuple, images, idx,
                   out_dir, events, img>>

\* if flip_left_right: out = out.transpose(FLIP_LEFT_RIGHT)
FlipImage ==
    /\ pc = "flip"
    /\ IF env.negative
       THEN out' = FlipLeftRight(out) /\ stages' = Append(stages, "C")
       ELSE UNCHANGED <<out, stages>>
    /\ pc' = "tint"
    /\ UNCHANGED <<exitCode, env, rows, pairs, lut, hsv_tuple, images, idx,
                   out_dir, events, img>>

\* if hsv is not None: out = apply_hsv_tint(out, h, s, v_scale)
TintImage ==
    /\ pc = "tint"
    /\ IF hsv_tuple.given
       THEN out' = apply_hsv_tint(out, hsv_tuple.val) /\ stages' = Append(stages, "D")
       ELSE UNCHANGED <<out, stages>>
    /\ pc' = "save"
    /\ UNCHANGED <<exitCode, env, rows, pairs, lut, hsv_tuple, images, idx,
                   out_dir, events, img>>

\* out.save(out_path, format=...): the encoder writes the file or raises, and
\* the exception is caught in main: exit 1
SaveImage ==
    /\ pc = "save"
    /\ \E ok \in BOOLEAN :
          IF ok
          THEN /\ Log(<<"write", images[idx]>>)
               /\ stages' = Append(stages, "save")
               /\ idx' = idx + 1
               /\ pc' = "loop"
               /\ exitCode' = exitCode
          ELSE /\ Log(<<"error", images[idx]>>)
               /\ Exit(1)
               /\ UNCHANGED <<stages, idx>>
    /\ UNCHANGED <<env, rows, pairs, lut, hsv_tuple, images, out_dir, img, out>>

(***************************************************************************)
(* Initial states and specifications.                                      *)
(***************************************************************************)
Row(scan, idea) == [Scan |-> scan, Idea |-> idea]

\* the CSV contents of the runs of main
MainRows ==
    {<<>>,
     <<Row(Fin(0), Fin(0)), Row(Fin(255), Fin(255))>>,
     <<Row(Fin(50), Fin(10)), Row(Fin(50), Fin(90))>>,
     <<Row(Fin(0), Fin(0)), Row(BadCell, Fin(5))>>}

\* the --hsv arguments of the runs of main
HsvArgs ==
    {NoHsv,
     HsvArg(<<Fin(30), Fin(100)>>),
     HsvArg(<<BadCell, Fin(100), Fin(100)>>),
     HsvArg(<<Fin(400), Fin(100), Fin(100)>>),
     HsvArg(<<NaN, Fin(100), Fin(100)>>),
     HsvArg(<<Fin(30), Fin(101), Fin(100)>>),
     HsvArg(<<Fin(0), Fin(0), Fin(100)>>),
     HsvArg(<<Fin(240), Fin(100), Fin(50)>>)}

\* the images of the runs of main
MainBuffers ==
    {Buffer(2, 1, "L", <<10, 60>>), Buffer(2, 2, "L", <<0, 255, 128, 64>>)}

ImageEntries == {DirEntry, CorruptFile} \cup {ImageFile(b) : b \in MainBuffers}

\* the directory listings: any subset of FileNames, notes.txt being no image
Listings ==
    UNION {{g \in [D -> ImageEntries] : 4 \in D => g[4] = CorruptFile} :
              D \in SUBSET (1..Len(FileNames))}

NoListing == [f \in {} |-> DirEntry]

Env(input_dir, lut_file, fieldnames, negative, hsv, listing) ==
    [input_dir |-> input_dir, lut_file |-> lut_file, fieldnames |-> fieldnames,
     negative |-> negative, hsv |-> hsv, listing |-> listing]

\* the state main starts in: nothing loaded, collected, created or written
Fresh ==
    /\ exitCode = 0 - 1
    /\ pairs = <<>>
    /\ lut = <<>>
    /\ hsv_tuple = NoTuple
    /\ images = <<>>
    /\ idx = 1
    /\ out_dir = FALSE
    /\ events = <<>>
    /\ stages = <<>>
    /\ img = NoBuffer
    /\ out = NoBuffer

\* a run of main: a missing directory lists nothing, a missing CSV has neither
\* columns nor rows, a CSV without the two columns yields no (Scan, Idea) rows
Init ==
    /\ pc = "start"
    /\ \E input_dir, lut_file, fieldnames, negative \in BOOLEAN :
       \E hsv \in HsvArgs, listing \in Listings :
          /\ ~input_dir => listing = NoListing
          /\ ~lut_file => ~fieldnames
          /\ env = Env(input_dir, lut_file, fieldnames, negative, hsv, listing)
    /\ rows \in MainRows
    /\ ~env.fieldnames => rows = <<>>
    /\ Fresh

Next ==
    \/ CheckInputDir \/ CheckLutFile \/ LoadLut \/ Negative \/ ParseHsv
    \/ CollectImages \/ MakeOutDir \/ NextImage \/ Finish
    \/ OpenImage \/ ScaleImage \/ PointImage \/ FlipImage \/ TintImage
    \/ SaveImage

Spec == Init /\ [][Next]_vars

\* load_lut as a function of the CSV rows.  Short sample lists are drawn from
\* inputs that are nan, -inf, inf, below 0, inside and above 0..255 and from
\* outputs below, inside and above [0, 255]; longer lists, with repeated
\* inputs between others, from a few finite values.
MaxSamples == 2
MaxFiniteSamples == 4
ScanVals == {NaN, NegInf, PosInf, Fin(0 - 10), Fin(50), Fin(100), Fin(300)}
IdeaVals == {Fin(0 - 5), Fin(10), Fin(90), Fin(300)}
FiniteScanVals == {Fin(20), Fin(50), Fin(100)}
FiniteIdeaVals == {Fin(10), Fin(90)}
SampleRows ==
    UNION ({[1..n -> [Scan : ScanVals, Idea : IdeaVals]] : n \in 0..MaxSamples}
           \cup {[1..n -> [Scan : FiniteScanVals, Idea : FiniteIdeaVals]] :
                    n \in 0..MaxFiniteSamples})

InitLut ==
    /\ pc = "load_lut"
    /\ env = Env(TRUE, TRUE, TRUE, TRUE, NoHsv, NoListing)
    /\ rows \in SampleRows
    /\ Fresh

NextLut == LoadLut \/ Negative

SpecLut == InitLut /\ [][NextLut]_vars

\* scale_to_full_range as a function of the decoded buffer: one row of up to
\* MaxPixels pixels
MaxPixels == 3
PixelVals == {0, 25, 50, 128, 255}
ScaleBuffers ==
    {Buffer(Len(q), 1, "L", q) : q \in UNION {[1..m -> PixelVals] : m \in 1..MaxPixels}}

InitScale ==
    /\ pc = "scale"
    /\ \E b \in ScaleBuffers :
          /\ env = Env(TRUE, TRUE, TRUE, FALSE, NoHsv, (2 :> ImageFile(b)))
          /\ img = b
    /\ rows = <<Row(Fin(0), Fin(0)), Row(Fin(255), Fin(255))>>
    /\ pairs = PySort(ParsePairs(rows))
    /\ lut = BuildTable(pairs)
    /\ exitCode = 0 - 1
    /\ hsv_tuple = NoTuple
    /\ images = <<2>>
    /\ idx = 1
    /\ out_dir = TRUE
    /\ events = <<<<"decode", 2>>>>
    /\ stages = <<>>
    /\ out = NoBuffer

NextScale == ScaleImage

SpecScale == InitScale /\ [][NextScale]_vars

(***************************************************************************)
(* Properties.                                                             *)
(***************************************************************************)
\* load_lut has returned a table (the state LoadLut leaves on success)
Loaded == pc = "negative"

\* the positions of main inside the per-image loop
LoopPcs == {"loop", "open", "scale", "point", "flip", "tint", "save"}

NoNanInput == \A j \in 1..Len(rows) : rows[j].Scan.k # "nan"

\* C1: for every non-empty sample set load_lut accepts (inputs negative, above
\* 255, repeated, not finite; outputs outside [0, 255]) the returned table has
\* exactly 256 entries, each an integer in 0..255.
C1_TableShape ==
    Loaded => /\ Len(lut) = 256
              /\ \A x \in 1..Len(lut) : lut[x] \in 0..255

\* C1 witness: a table was built from a negative input, an input above 255 and
\* outputs on both sides of [0, 255].
C1_Witness ==
    /\ Loaded
    /\ rows = <<Row(Fin(0 - 10), Fin(300)), Row(Fin(300), Fin(0 - 5))>>
    /\ lut[1] = 247
    /\ lut[256] = 37

TieRows == <<Row(Fin(50), Fin(10)), Row(Fin(50), Fin(90))>>

\* C2 as stated: for the samples [(50,10),(50,90)] the table is 10 for every
\* i < 50 and 90 for every i >= 50, i = 50 included.
C2_AsStated ==
    (Loaded /\ rows = TieRows) =>
        \A i \in 0..255 : lut[i + 1] = IF i < 50 THEN 10 ELSE 90

\* C2 amended: for the samples [(50,10),(50,90)] the table is 10 for every
\* i <= 50 (i = 50 included: i <= s_min is tested first) and 90 for every
\* i > 50.
C2_Amended ==
    (Loaded /\ rows = TieRows) =>
        \A i \in 0..255 : lut[i + 1] = IF i <= 50 THEN 10 ELSE 90

\* C2 witness: the table of [(50,10),(50,90)] was built, and holds 10 at 50.
C2_Witness == Loaded /\ rows = TieRows /\ lut[51] = 10 /\ lut[52] = 90

\* C3 as stated: if the samples in ascending input order have non-decreasing
\* clamped outputs, the table is non-decreasing (table[i] <= table[i+1] for
\* every i in 0..254).  No input being nan, the sorted pairs are in ascending
\* input order.
C3_Monotone ==
    (/\ Loaded
     /\ NoNanInput
     /\ \A j \in 1..(Len(pairs) - 1) : FLe(pairs[j][2], pairs[j + 1][2]))
    => \A x \in 1..255 : lut[x] <= lut[x + 1]

\* C10 as stated: for every non-empty sample set and every i in 0..255 the
\* single-sample branch, the zero-width branch and the for-else fallback are
\* never taken, and an interpolated entry comes from a pair with s0 < i <= s1.
C10_BranchesOf(ps) ==
    \A i \in 0..255 :
        /\ LutBranch(ps, i) \in {"min", "max", "interp"}
        /\ LutBranch(ps, i) = "interp" =>
              LET j == ScanFrom(ps, i, 2)
              IN  FLt(ps[j - 1][1], Fin(i)) /\ FLe(Fin(i), ps[j][1])

SetupError ==
    \/ ~env.input_dir
    \/ ~env.lut_file
    \/ LutError
    \/ (env.hsv.given /\ HsvError(env.hsv.parts))

\* an image failed: some event of the log is an error
ImageFailed == \E j \in 1..Len(events) : events[j][1] = "error"

\* C4: the first image that fails ends the run at once with exit code 1:
\* the error is the last event of the run (nothing is decoded or written
\* after it), and every image before the failing one has been written.
C4_FailFast ==
    \A j \in 1..Len(events) :
        events[j][1] = "error" =>
            /\ j = Len(events)
            /\ pc = "exit" /\ exitCode = 1
            /\ events[j][2] = images[idx]
            /\ \A m \in 1..(idx - 1) :
                  \E n \in 1..(j - 1) : events[n] = <<"write", images[m]>>

\* C4 witness: the second of three images failed after the first was written,
\* and the run is over.
C4_Witness ==
    /\ pc = "exit"
    /\ Len(images) = 3
    /\ idx = 2
    /\ events[Len(events)] = <<"error", images[2]>>
    /\ events[2] = <<"write", images[1]>>

\* C5: a run with a setup error never decodes an image, never writes a file
\* and never creates the output directory, and ends with exit code 1; the
\* images are processed only in runs that passed every check.
C5_SetupFirst ==
    SetupError =>
        /\ events = <<>>
        /\ ~out_dir
        /\ pc \notin LoopPcs \cup {"mkdir"}
        /\ pc = "exit" => exitCode = 1

\* C5 witness: a run with images to process ended on a bad --hsv value, its
\* directory and CSV being in order.
C5_Witness ==
    /\ pc = "exit"
    /\ env.input_dir /\ env.lut_file /\ ~LutError
    /\ env.hsv.given /\ HsvError(env.hsv.parts)
    /\ collect_images(env.listing, Extensions) # <<>>
    /\ events = <<>>

StagesOf(flip, tint) ==
    <<"A", "B">> \o (IF flip THEN <<"C">> ELSE <<>>)
                 \o (IF tint THEN <<"D">> ELSE <<>>) \o <<"save">>

\* C7: the stages run in the order A, B, C, D, save, each at most once; A and
\* B always, C exactly when the flip was requested, D exactly when an HSV
\* triple was given; the lookup is applied to the normalised buffer.
C7_StageOrder ==
    LET want == StagesOf(env.negative, env.hsv.given)
        raw == env.listing[images[idx]].buf
    IN  /\ pc = "scale" => stages = <<>>
        /\ pc = "point" => stages = <<"A">> /\ img = scale_to_full_range(raw)
        /\ pc = "flip" =>
              /\ stages = <<"A", "B">>
              /\ out.data = [x \in 1..Len(raw.data) |->
                                lut[scale_to_full_range(raw).data[x] + 1]]
        /\ pc = "tint" => stages = SubSeq(want, 1, IF env.negative THEN 3 ELSE 2)
        /\ pc = "save" => stages = SubSeq(want, 1, Len(want) - 1)
        /\ (pc \in {"loop", "exit"} /\ stages # <<>> /\ ~ImageFailed) => stages = want

\* C7 witness: an image went through all of A, B, C, D and was saved.
C7_Witness ==
    /\ pc = "loop"
    /\ stages = <<"A", "B", "C", "D", "save">>
    /\ out.mode = "RGB"

\* C8: scale_to_full_range leaves a buffer with minimum 0 and maximum 255
\* unchanged, pixel for pixel, and turns a buffer of equal pixels into an
\* all-zero buffer of the same size.
C8_ScaleFixpoints ==
    pc = "point" =>
        LET raw == env.listing[images[idx]].buf
        IN  /\ (SeqMin(raw.data) = 0 /\ SeqMax(raw.data) = 255) => img = raw
            /\ SeqMin(raw.data) = SeqMax(raw.data) =>
                  /\ img.w = raw.w /\ img.h = raw.h
                  /\ Len(img.data) = Len(raw.data)
                  /\ \A x \in 1..Len(img.data) : img.data[x] = 0

\* C8 witness: a buffer holding 0, 255 and a value between them was normalised.
C8_Witness ==
    /\ pc = "point"
    /\ LET raw == env.listing[images[idx]].buf
       IN  /\ SeqMin(raw.data) = 0 /\ SeqMax(raw.data) = 255
           /\ \E x \in 1..Len(raw.data) : raw.data[x] \notin {0, 255}

\* the table of the run: load_lut of the CSV, inverted under --negative
TableOfRun ==
    LET t == BuildTable(PySort(ParsePairs(rows)))
    IN  IF env.negative THEN InvertTable(t) ELSE t

\* what process_image hands to the encoder for a decoded buffer, as a function
\* of that buffer, the table and the flags alone
OutputOf(raw) ==
    LET mapped == PointLut(scale_to_full_range(raw), lut)
        flipped == IF env.negative THEN FlipLeftRight(mapped) ELSE mapped
    IN  IF hsv_tuple.given THEN apply_hsv_tint(flipped, hsv_tuple.val) ELSE flipped

\* C9: the images are processed one at a time in ascending order of their
\* names, each at most once (every decoded image comes after all those decoded
\* before it); the table every lookup uses is the one built before the loop,
\* and the buffer saved for an image depends on that image, the table and the
\* flags alone, not on the images processed before it.
C9_Sequential ==
    /\ \A a, b \in 1..Len(images) : a < b => images[a] < images[b]
    /\ \A a, b \in 1..Len(events) :
          (a < b /\ events[a][1] = "decode" /\ events[b][1] = "decode")
              => events[a][2] < events[b][2]
    /\ \A a \in 1..Len(events) :
          events[a][1] = "decode" =>
              \E m \in 1..Len(images) : m <= idx /\ events[a][2] = images[m]
    /\ pc \in LoopPcs => idx \in 1..(Len(images) + 1)
    /\ pc = "point" => lut = TableOfRun
    /\ pc = "save" => out = OutputOf(env.listing[images[idx]].buf)

\* C9 witness: three images were decoded and written, in the order of their
\* names, and the run ended with 0.
C9_Witness ==
    /\ pc = "exit"
    /\ exitCode = 0
    /\ Len(images) = 3
    /\ events = <<<<"decode", images[1]>>, <<"write", images[1]>>,
                  <<"decode", images[2]>>, <<"write", images[2]>>,
                  <<"decode", images[3]>>, <<"write", images[3]>>>>

====
